---- MODULE Spec2Model ----
(***************************************************************************)
(* Model of the Minesweeper engine (src/src/minesweeper.rs) and of the     *)
(* board snapshot the UI builds from it (src/src/ui.rs).                   *)
(*                                                                         *)
(* The game is one record `ms` with the fields of struct Minesweeper; the  *)
(* methods are operators from a game to a game, translated statement by    *)
(* statement.  Indexing a Vec out of range panics in Rust; `panicked`      *)
(* records that a call aborted that way.  `last` names the last method     *)
(* called on the game, so that properties can speak about "the call".      *)
(*                                                                         *)
(* Spec runs the engine with every method call as one step.  SpecFlood     *)
(* runs reveal_zeros statement by statement on an explicit call stack      *)
(* (`stack`, with `marked` logging the fields it marks and `call` holding  *)
(* the game and arguments of the reveal in progress).  SpecUI runs the     *)
(* four callbacks of ui.rs as concurrent processes, one statement at a     *)
(* time, around the Mutex that guards the game (`pc`, `mutex`, `local`).   *)
(***************************************************************************)
EXTENDS Integers, FiniteSets, Sequences, TLC

VARIABLES ms, panicked, last, stack, marked, call, pc, mutex, local

floodVars == <<stack, marked, call>>
uiVars == <<pc, mutex, local>>
vars == <<ms, panicked, last, floodVars, uiVars>>

\* ------------------------------------------------------------------ bounds
\* Largest width, height, number of fields and number of mines of a game.
MaxDx == 3
MaxDy == 2
MaxCells == 6
MaxMines == 2

\* ------------------------------------------------------------- data model
GameStatus == {"Win", "GameOver", "Running"}

\* Field::default()
FieldDefault ==
  [is_mine |-> FALSE, is_revealed |-> FALSE, is_flagged |-> FALSE, adjacent_mines |-> 0]

\* struct Settings, the valid ones: dx, dy >= 1 and mine_count < dx*dy.
Settings ==
  { s \in [dx : 1..MaxDx, dy : 1..MaxDy, mine_count : 0..MaxMines] :
      s.dx * s.dy <= MaxCells /\ s.mine_count < s.dx * s.dy }

\* (0..dx*dy).choose_multiple(rng, mine_count): any mine_count distinct indices.
choose_multiple(n, amount) ==
  { m \in SUBSET (0..(n - 1)) : Cardinality(m) = amount }

\* Vec indexing board[y][x] is defined only inside the board.
InBounds(self, x, y) == y < self.dy /\ x < self.dx

\* ---------------------------------------------------------------- accessors
\* Faulty variant: Field::is_mine that does not hide an unrevealed mine.
Field_is_mine_NoHide(f) == f.is_mine

\* Field::is_mine
Field_is_mine(f) == IF ~f.is_revealed THEN FALSE ELSE f.is_mine

\* Field::is_revealed
Field_is_revealed(f) == f.is_revealed

\* Field::is_flagged
Field_is_flagged(f) == f.is_flagged

\* Field::adjacent_mines
Field_adjacent_mines(f) == IF ~f.is_revealed THEN 0 ELSE f.adjacent_mines

\* ------------------------------------------------------------------ restart
\* One `if cond { board[yy][xx].adjacent_mines += 1 }` statement.
Bump(b, cond, yy, xx) ==
  IF cond THEN [b EXCEPT ![yy][xx].adjacent_mines = @ + 1] ELSE b

\* Faulty variant: the adjacency loop body without the `left` statement.
BumpAround_NoLeft(b, dx, dy, x, y) ==
  IF ~b[y][x].is_mine THEN b
  ELSE
    LET b1 == Bump(b,  y > 0 /\ x > 0,           y - 1, x - 1)
        b2 == Bump(b1, y > 0,                    y - 1, x)
        b3 == Bump(b2, y > 0 /\ x < dx - 1,      y - 1, x + 1)
        b5 == Bump(b3, x < dx - 1,               y,     x + 1)
        b6 == Bump(b5, y < dy - 1 /\ x > 0,      y + 1, x - 1)
        b7 == Bump(b6, y < dy - 1,               y + 1, x)
        b8 == Bump(b7, y < dy - 1 /\ x < dx - 1, y + 1, x + 1)
    IN  b8

\* Body of the adjacency loop for the field (x, y).
BumpAround(b, dx, dy, x, y) ==
  IF ~b[y][x].is_mine THEN b
  ELSE
    LET b1 == Bump(b,  y > 0 /\ x > 0,           y - 1, x - 1)
        b2 == Bump(b1, y > 0,                    y - 1, x)
        b3 == Bump(b2, y > 0 /\ x < dx - 1,      y - 1, x + 1)
        b4 == Bump(b3, x > 0,                    y,     x - 1)
        b5 == Bump(b4, x < dx - 1,               y,     x + 1)
        b6 == Bump(b5, y < dy - 1 /\ x > 0,      y + 1, x - 1)
        b7 == Bump(b6, y < dy - 1,               y + 1, x)
        b8 == Bump(b7, y < dy - 1 /\ x < dx - 1, y + 1, x + 1)
    IN  b8

\* The nested loops `for y in 0..dy { for x in 0..dx {..} }`, from index i on.
RECURSIVE AdjacencyLoop(_, _, _, _)
AdjacencyLoop(b, dx, dy, i) ==
  IF i >= dx * dy THEN b
  ELSE AdjacencyLoop(BumpAround(b, dx, dy, i % dx, i \div dx), dx, dy, i + 1)

\* `for i in mines { board[i / dx][i % dx].is_mine = true }`
PlaceMines(dx, dy, mines) ==
  [y \in 0..(dy - 1) |->
    [x \in 0..(dx - 1) |->
      IF (y * dx + x) \in mines
        THEN [FieldDefault EXCEPT !.is_mine = TRUE]
        ELSE FieldDefault]]

\* Faulty variant: restart that forgets to reset flagged_count.
restart_KeepsFlaggedCount(self, mines) ==
  [self EXCEPT
     !.status = "Running",
     !.revealed_count = 0,
     !.flagged_mines_count = 0,
     !.board = AdjacencyLoop(PlaceMines(self.dx, self.dy, mines), self.dx, self.dy, 0)]

\* Minesweeper::restart, with `mines` the outcome of the random choice.
restart(self, mines) ==
  [self EXCEPT
     !.status = "Running",
     !.revealed_count = 0,
     !.flagged_count = 0,
     !.flagged_mines_count = 0,
     !.board = AdjacencyLoop(PlaceMines(self.dx, self.dy, mines), self.dx, self.dy, 0)]

\* minesweeper::new
new(set, mines) ==
  restart([status |-> "Running",
           dx |-> set.dx, dy |-> set.dy, mine_count |-> set.mine_count,
           revealed_count |-> 0, flagged_count |-> 0, flagged_mines_count |-> 0,
           board |-> [y \in 0..(set.dy - 1) |-> [x \in 0..(set.dx - 1) |-> FieldDefault]]],
          mines)

\* ---------------------------------------------------------------- check_win
\* Faulty variant: check_win without its clearance test.
check_win_NoClearance(self) ==
  IF self.flagged_mines_count = self.mine_count
    THEN [self EXCEPT !.status = "Win"] ELSE self

\* Faulty variant: check_win without its flag test.
check_win_NoFlagWin(self) ==
  IF (self.dx * self.dy) = (self.revealed_count + self.mine_count)
    THEN [self EXCEPT !.status = "Win"] ELSE self

\* Minesweeper::check_win
check_win(self) ==
  LET s1 == IF (self.dx * self.dy) = (self.revealed_count + self.mine_count)
              THEN [self EXCEPT !.status = "Win"] ELSE self
      s2 == IF s1.flagged_mines_count = s1.mine_count
              THEN [s1 EXCEPT !.status = "Win"] ELSE s1
  IN  s2

\* ------------------------------------------------------------- reveal_zeros
\* Faulty variant: reveal_zeros that stops only at revealed fields, not at
\* flagged ones.
RECURSIVE reveal_zeros_IgnoreFlag(_, _, _)
reveal_zeros_IgnoreFlag(self, x, y) ==
  LET f == self.board[y][x] IN
  IF f.is_revealed THEN self
  ELSE
    LET s0 == [self EXCEPT !.board[y][x].is_revealed = TRUE,
                           !.revealed_count = @ + 1]
    IN
    IF f.adjacent_mines # 0 THEN s0
    ELSE
      LET s1 == IF y > 0 /\ x > 0 THEN reveal_zeros_IgnoreFlag(s0, x - 1, y - 1) ELSE s0
          s2 == IF y > 0 THEN reveal_zeros_IgnoreFlag(s1, x, y - 1) ELSE s1
          s3 == IF y > 0 /\ x < self.dx - 1 THEN reveal_zeros_IgnoreFlag(s2, x + 1, y - 1) ELSE s2
          s4 == IF x > 0 THEN reveal_zeros_IgnoreFlag(s3, x - 1, y) ELSE s3
          s5 == IF x < self.dx - 1 THEN reveal_zeros_IgnoreFlag(s4, x + 1, y) ELSE s4
          s6 == IF y < self.dy - 1 /\ x > 0 THEN reveal_zeros_IgnoreFlag(s5, x - 1, y + 1) ELSE s5
          s7 == IF y < self.dy - 1 THEN reveal_zeros_IgnoreFlag(s6, x, y + 1) ELSE s6
          s8 == IF y < self.dy - 1 /\ x < self.dx - 1 THEN reveal_zeros_IgnoreFlag(s7, x + 1, y + 1) ELSE s7
      IN  s8

\* Faulty variant: reveal_zeros without the recursion into the left neighbour.
RECURSIVE reveal_zeros_NoLeft(_, _, _)
reveal_zeros_NoLeft(self, x, y) ==
  LET f == self.board[y][x] IN
  IF f.is_revealed \/ f.is_flagged THEN self
  ELSE
    LET s0 == [self EXCEPT !.board[y][x].is_revealed = TRUE,
                           !.revealed_count = @ + 1]
    IN
    IF f.adjacent_mines # 0 THEN s0
    ELSE
      LET s1 == IF y > 0 /\ x > 0 THEN reveal_zeros_NoLeft(s0, x - 1, y - 1) ELSE s0
          s2 == IF y > 0 THEN reveal_zeros_NoLeft(s1, x, y - 1) ELSE s1
          s3 == IF y > 0 /\ x < self.dx - 1 THEN reveal_zeros_NoLeft(s2, x + 1, y - 1) ELSE s2
          s5 == IF x < self.dx - 1 THEN reveal_zeros_NoLeft(s3, x + 1, y) ELSE s3
          s6 == IF y < self.dy - 1 /\ x > 0 THEN reveal_zeros_NoLeft(s5, x - 1, y + 1) ELSE s5
          s7 == IF y < self.dy - 1 THEN reveal_zeros_NoLeft(s6, x, y + 1) ELSE s6
          s8 == IF y < self.dy - 1 /\ x < self.dx - 1 THEN reveal_zeros_NoLeft(s7, x + 1, y + 1) ELSE s7
      IN  s8

\* Minesweeper::reveal_zeros
RECURSIVE reveal_zeros(_, _, _)
reveal_zeros(self, x, y) ==
  LET f == self.board[y][x] IN
  IF f.is_revealed \/ f.is_flagged THEN self
  ELSE
    LET s0 == [self EXCEPT !.board[y][x].is_revealed = TRUE,
                           !.revealed_count = @ + 1]
    IN
    IF f.adjacent_mines # 0 THEN s0
    ELSE
      LET s1 == IF y > 0 /\ x > 0 THEN reveal_zeros(s0, x - 1, y - 1) ELSE s0
          s2 == IF y > 0 THEN reveal_zeros(s1, x, y - 1) ELSE s1
          s3 == IF y > 0 /\ x < self.dx - 1 THEN reveal_zeros(s2, x + 1, y - 1) ELSE s2
          s4 == IF x > 0 THEN reveal_zeros(s3, x - 1, y) ELSE s3
          s5 == IF x < self.dx - 1 THEN reveal_zeros(s4, x + 1, y) ELSE s4
          s6 == IF y < self.dy - 1 /\ x > 0 THEN reveal_zeros(s5, x - 1, y + 1) ELSE s5
          s7 == IF y < self.dy - 1 THEN reveal_zeros(s6, x, y + 1) ELSE s6
          s8 == IF y < self.dy - 1 /\ x < self.dx - 1 THEN reveal_zeros(s7, x + 1, y + 1) ELSE s7
      IN  s8

\* -------------------------------------------- reveal_zeros, step by step
\* An activation of reveal_zeros(x, y) and the statement it executes next:
\* pc 0 is the entry (lines 216-226), pc 1..8 are the eight guarded
\* recursive calls in source order (lines 229-243), pc 9 is the return.
Frame(x, y) == [x |-> x, y |-> y, pc |-> 0]

\* Faulty variant: the entry of reveal_zeros without the is_revealed test.
reveal_zeros_enter_NoRevealedTest(self, x, y) ==
  LET f == self.board[y][x] IN
  IF f.is_flagged
    THEN [self |-> self, marks |-> FALSE, recurses |-> FALSE]
  ELSE [self |-> [self EXCEPT !.board[y][x].is_revealed = TRUE,
                              !.revealed_count = @ + 1],
        marks |-> TRUE,
        recurses |-> f.adjacent_mines = 0]

\* Lines 216-226 of reveal_zeros: the game afterwards, whether the field was
\* marked revealed (and counted), and whether the activation goes on to its
\* recursive calls rather than returning.
reveal_zeros_enter(self, x, y) ==
  LET f == self.board[y][x] IN
  IF f.is_revealed \/ f.is_flagged
    THEN [self |-> self, marks |-> FALSE, recurses |-> FALSE]
  ELSE [self |-> [self EXCEPT !.board[y][x].is_revealed = TRUE,
                              !.revealed_count = @ + 1],
        marks |-> TRUE,
        recurses |-> f.adjacent_mines = 0]

\* The k-th recursive call of reveal_zeros(x, y): its guard and its arguments.
reveal_zeros_call(self, x, y, k) ==
  CASE k = 1 -> [guard |-> y > 0 /\ x > 0, x |-> x - 1, y |-> y - 1]
    [] k = 2 -> [guard |-> y > 0, x |-> x, y |-> y - 1]
    [] k = 3 -> [guard |-> y > 0 /\ x < self.dx - 1, x |-> x + 1, y |-> y - 1]
    [] k = 4 -> [guard |-> x > 0, x |-> x - 1, y |-> y]
    [] k = 5 -> [guard |-> x < self.dx - 1, x |-> x + 1, y |-> y]
    [] k = 6 -> [guard |-> y < self.dy - 1 /\ x > 0, x |-> x - 1, y |-> y + 1]
    [] k = 7 -> [guard |-> y < self.dy - 1, x |-> x, y |-> y + 1]
    [] k = 8 -> [guard |-> y < self.dy - 1 /\ x < self.dx - 1,
                 x |-> x + 1, y |-> y + 1]

\* ------------------------------------------------------------------- reveal
\* Outcome of a call: the game afterwards, and whether the call panicked.
Ok(self) == [panic |-> FALSE, self |-> self]
Panic(self) == [panic |-> TRUE, self |-> self]

\* Faulty variant: reveal whose numbered-field branch assigns revealed_count
\* instead of incrementing it.
reveal_AssignsCount(self, x, y) ==
  IF self.status # "Running" THEN Ok(self)
  ELSE IF ~InBounds(self, x, y) THEN Panic(self)
  ELSE
    LET f == self.board[y][x] IN
    IF f.is_revealed \/ f.is_flagged THEN Ok(self)
    ELSE
      LET s == IF f.is_mine
                 THEN [self EXCEPT !.board[y][x].is_revealed = TRUE,
                                   !.revealed_count = @ + 1,
                                   !.status = "GameOver"]
               ELSE IF f.adjacent_mines = 0
                 THEN reveal_zeros(self, x, y)
               ELSE [self EXCEPT !.board[y][x].is_revealed = TRUE,
                                 !.revealed_count = 1]
      IN  Ok(check_win(s))

\* Faulty variant: reveal that returns without calling check_win.
reveal_NoCheckWin(self, x, y) ==
  IF self.status # "Running" THEN Ok(self)
  ELSE IF ~InBounds(self, x, y) THEN Panic(self)
  ELSE
    LET f == self.board[y][x] IN
    IF f.is_revealed \/ f.is_flagged THEN Ok(self)
    ELSE
      LET s == IF f.is_mine
                 THEN [self EXCEPT !.board[y][x].is_revealed = TRUE,
                                   !.revealed_count = @ + 1,
                                   !.status = "GameOver"]
               ELSE IF f.adjacent_mines = 0
                 THEN reveal_zeros(self, x, y)
               ELSE [self EXCEPT !.board[y][x].is_revealed = TRUE,
                                 !.revealed_count = @ + 1]
      IN  Ok(s)

\* Minesweeper::reveal
reveal(self, x, y) ==
  IF self.status # "Running" THEN Ok(self)
  ELSE IF ~InBounds(self, x, y) THEN Panic(self)
  ELSE
    LET f == self.board[y][x] IN
    IF f.is_revealed \/ f.is_flagged THEN Ok(self)
    ELSE
      LET s == IF f.is_mine
                 THEN [self EXCEPT !.board[y][x].is_revealed = TRUE,
                                   !.revealed_count = @ + 1,
                                   !.status = "GameOver"]
               ELSE IF f.adjacent_mines = 0
                 THEN reveal_zeros(self, x, y)
               ELSE [self EXCEPT !.board[y][x].is_revealed = TRUE,
                                 !.revealed_count = @ + 1]
      IN  Ok(check_win(s))

\* --------------------------------------------------------------------- flag
\* Faulty variant: flag without the status test.
flag_NoStatusGuard(self, x, y) ==
  IF ~InBounds(self, x, y) THEN Panic(self)
  ELSE
    LET f == self.board[y][x] IN
    IF f.is_revealed THEN Ok(self)
    ELSE
      LET s == IF f.is_flagged
                 THEN [self EXCEPT
                         !.board[y][x].is_flagged = FALSE,
                         !.flagged_count = @ - 1,
                         !.flagged_mines_count = IF f.is_mine THEN @ - 1 ELSE @]
                 ELSE [self EXCEPT
                         !.board[y][x].is_flagged = TRUE,
                         !.flagged_count = @ + 1,
                         !.flagged_mines_count = IF f.is_mine THEN @ + 1 ELSE @]
      IN  Ok(check_win(s))

\* Faulty variant: flag whose unflag branch forgets the mine counter.
flag_NoMineDecrement(self, x, y) ==
  IF self.status # "Running" THEN Ok(self)
  ELSE IF ~InBounds(self, x, y) THEN Panic(self)
  ELSE
    LET f == self.board[y][x] IN
    IF f.is_revealed THEN Ok(self)
    ELSE
      LET s == IF f.is_flagged
                 THEN [self EXCEPT
                         !.board[y][x].is_flagged = FALSE,
                         !.flagged_count = @ - 1]
                 ELSE [self EXCEPT
                         !.board[y][x].is_flagged = TRUE,
                         !.flagged_count = @ + 1,
                         !.flagged_mines_count = IF f.is_mine THEN @ + 1 ELSE @]
      IN  Ok(check_win(s))

\* Faulty variant: flag without the test for a revealed field.
flag_NoRevealedGuard(self, x, y) ==
  IF self.status # "Running" THEN Ok(self)
  ELSE IF ~InBounds(self, x, y) THEN Panic(self)
  ELSE
    LET f == self.board[y][x] IN
      LET s == IF f.is_flagged
                 THEN [self EXCEPT
                         !.board[y][x].is_flagged = FALSE,
                         !.flagged_count = @ - 1,
                         !.flagged_mines_count = IF f.is_mine THEN @ - 1 ELSE @]
                 ELSE [self EXCEPT
                         !.board[y][x].is_flagged = TRUE,
                         !.flagged_count = @ + 1,
                         !.flagged_mines_count = IF f.is_mine THEN @ + 1 ELSE @]
      IN  Ok(check_win(s))

\* Faulty variant: flag that returns without calling check_win.
flag_NoCheckWin(self, x, y) ==
  IF self.status # "Running" THEN Ok(self)
  ELSE IF ~InBounds(self, x, y) THEN Panic(self)
  ELSE
    LET f == self.board[y][x] IN
    IF f.is_revealed THEN Ok(self)
    ELSE
      LET s == IF f.is_flagged
                 THEN [self EXCEPT
                         !.board[y][x].is_flagged = FALSE,
                         !.flagged_count = @ - 1,
                         !.flagged_mines_count = IF f.is_mine THEN @ - 1 ELSE @]
                 ELSE [self EXCEPT
                         !.board[y][x].is_flagged = TRUE,
                         !.flagged_count = @ + 1,
                         !.flagged_mines_count = IF f.is_mine THEN @ + 1 ELSE @]
      IN  Ok(s)

\* Faulty variant: flag whose unflag branch forgets flagged_count.
flag_UnflagKeepsCount(self, x, y) ==
  IF self.status # "Running" THEN Ok(self)
  ELSE IF ~InBounds(self, x, y) THEN Panic(self)
  ELSE
    LET f == self.board[y][x] IN
    IF f.is_revealed THEN Ok(self)
    ELSE
      LET s == IF f.is_flagged
                 THEN [self EXCEPT
                         !.board[y][x].is_flagged = FALSE,
                         !.flagged_mines_count = IF f.is_mine THEN @ - 1 ELSE @]
                 ELSE [self EXCEPT
                         !.board[y][x].is_flagged = TRUE,
                         !.flagged_count = @ + 1,
                         !.flagged_mines_count = IF f.is_mine THEN @ + 1 ELSE @]
      IN  Ok(check_win(s))

\* Minesweeper::flag
flag(self, x, y) ==
  IF self.status # "Running" THEN Ok(self)
  ELSE IF ~InBounds(self, x, y) THEN Panic(self)
  ELSE
    LET f == self.board[y][x] IN
    IF f.is_revealed THEN Ok(self)
    ELSE
      LET s == IF f.is_flagged
                 THEN [self EXCEPT
                         !.board[y][x].is_flagged = FALSE,
                         !.flagged_count = @ - 1,
                         !.flagged_mines_count = IF f.is_mine THEN @ - 1 ELSE @]
                 ELSE [self EXCEPT
                         !.board[y][x].is_flagged = TRUE,
                         !.flagged_count = @ + 1,
                         !.flagged_mines_count = IF f.is_mine THEN @ + 1 ELSE @]
      IN  Ok(check_win(s))

\* ------------------------------------------------------------- UI snapshot
\* TileData::default()
TileDataDefault ==
  [is_flagged |-> FALSE, revealed |-> FALSE, is_mine |-> FALSE, adjacent_mines |-> 0]

\* The per-field closure of board_as_model.
TileOf(col) ==
  LET td1 == [TileDataDefault EXCEPT !.is_flagged = Field_is_flagged(col),
                                     !.revealed = Field_is_revealed(col)]
  IN  IF td1.revealed
        THEN [td1 EXCEPT !.is_mine = Field_is_mine(col),
                         !.adjacent_mines = Field_adjacent_mines(col)]
        ELSE td1

\* ui::board_as_model
board_as_model(board) ==
  [y \in DOMAIN board |-> [x \in DOMAIN board[y] |-> TileOf(board[y][x])]]

\* `a - b` on usize: the difference when a >= b; otherwise the build decides:
\* a panic (overflow checks on) or the value 2^64 - (b - a) (checks off),
\* recorded by how far below zero the difference is.
usize_sub(a, b) ==
  IF a >= b THEN { [kind |-> "value", value |-> a - b] }
  ELSE { [kind |-> "panic", value |-> 0],
         [kind |-> "wrapped", value |-> b - a] }

\* `let mines = ms.mine_count() - ms.flagged_count();` of the right-click
\* handler: the possible outcomes.
mines_readout(self) == usize_sub(self.mine_count, self.flagged_count)

\* ---------------------------------------------------------- the callbacks
\* The closures ui::run registers on the window.
Callbacks == {"tile_clicked", "tile_right_clicked", "restart", "tick"}

\* The local variables of a callback before it has assigned them.  `after`
\* is not a variable of the code: it keeps the game as the callback's own
\* engine operation left it.
LocalsDefault ==
  [ms_status |-> "unset", board |-> <<>>, mines |-> <<>>, after |-> <<>>]

\* No callback is running and the Mutex is unlocked (ui::run drops its own
\* guard at line 44 before it starts the event loop).
UiIdle ==
  /\ pc = [p \in Callbacks |-> "idle"]
  /\ mutex = "free"
  /\ local = [p \in Callbacks |-> LocalsDefault]

\* ------------------------------------------------------------ state machine
\* Coordinates a caller may pass: every field, and one column / row beyond.
XArgs == 0..ms.dx
YArgs == 0..ms.dy

Init ==
  /\ \E set \in Settings :
       \E mines \in choose_multiple(set.dx * set.dy, set.mine_count) :
         ms = new(set, mines)
  /\ panicked = FALSE
  /\ last = "new"
  /\ stack = <<>>
  /\ marked = <<>>
  /\ call = <<>>
  /\ UiIdle

Restart ==
  /\ ~panicked
  /\ \E mines \in choose_multiple(ms.dx * ms.dy, ms.mine_count) :
       ms' = restart(ms, mines)
  /\ last' = "restart"
  /\ UNCHANGED <<panicked, floodVars, uiVars>>

Reveal ==
  /\ ~panicked
  /\ \E x \in XArgs, y \in YArgs :
       LET r == reveal(ms, x, y) IN
         /\ ms' = r.self
         /\ panicked' = r.panic
         /\ last' = "reveal"
  /\ UNCHANGED <<floodVars, uiVars>>

Flag ==
  /\ ~panicked
  /\ \E x \in XArgs, y \in YArgs :
       LET r == flag(ms, x, y) IN
         /\ ms' = r.self
         /\ panicked' = r.panic
         /\ last' = "flag"
  /\ UNCHANGED <<floodVars, uiVars>>

Next == Restart \/ Reveal \/ Flag

Spec == Init /\ [][Next]_vars

\* ------------------------------------------------------- derived quantities
\* The fields of a game as (x, y) pairs, and the sets the claims speak about.
CellsOf(self) == (0..(self.dx - 1)) \X (0..(self.dy - 1))
FieldAt(self, c) == self.board[c[2]][c[1]]
MinesOf(self) == { c \in CellsOf(self) : FieldAt(self, c).is_mine }
RevealedOf(self) == { c \in CellsOf(self) : FieldAt(self, c).is_revealed }
FlaggedOf(self) == { c \in CellsOf(self) : FieldAt(self, c).is_flagged }

Cells == CellsOf(ms)
Mines == MinesOf(ms)
Revealed == RevealedOf(ms)
Flagged == FlaggedOf(ms)

\* A field a reveal call acts on: not revealed and not flagged.
Untouched(self, c) ==
  ~FieldAt(self, c).is_revealed /\ ~FieldAt(self, c).is_flagged

\* The 8-neighbourhood of a field, clipped to the board.
Neighbours(self, c) ==
  { d \in CellsOf(self) :
      /\ d # c
      /\ d[1] - c[1] \in {-1, 0, 1}
      /\ d[2] - c[2] \in {-1, 0, 1} }

TypeOK ==
  /\ ms.status \in GameStatus
  /\ panicked \in BOOLEAN
  /\ last \in {"new", "restart", "reveal", "flag"}
  /\ Cardinality(Mines) = ms.mine_count


\* ------------------------------------------------------------------------
\* C1  Revealing a mine ends the game with GameOver.
\* ------------------------------------------------------------------------

\* C1: a mine field is revealed only by reveal(x, y) called on it in a
\* Running game, and the game is frozen afterwards; so the claim says that in
\* every reachable state with a revealed mine the status is GameOver.
C1_RevealMineIsGameOver ==
  (Mines \cap Revealed # {}) => ms.status = "GameOver"

\* ------------------------------------------------------------------------
\* C2  Win condition A (clearance).
\* ------------------------------------------------------------------------

\* C2: whenever no mine has been revealed and every non-mine field is
\* revealed, status is Win.
C2_ClearanceWins ==
  (Revealed = Cells \ Mines) => ms.status = "Win"

\* C2 witness: a game with mines and a flag on one of them, won by a reveal
\* call that completed the clearance (not every mine is flagged).
C2_Witness ==
  /\ Revealed = Cells \ Mines
  /\ ms.mine_count = 2
  /\ Cardinality(Flagged) = 1
  /\ last = "reveal"
  /\ ms.status = "Win"

\* ------------------------------------------------------------------------
\* C3  Win condition B (flags).
\* ------------------------------------------------------------------------

\* C3: whenever every mine field of a game with mines is flagged, status is
\* Win; and every flag call that places a flag after which all mines are
\* flagged returns with status Win, whatever else is revealed or flagged.
C3_FlaggingAllMinesWins ==
  /\ (ms.mine_count > 0 /\ Mines \subseteq Flagged) => ms.status = "Win"
  /\ ~panicked =>
       \A c \in Cells :
         LET r == flag(ms, c[1], c[2]).self IN
           (ms.status = "Running" /\ Untouched(ms, c)
              /\ MinesOf(r) \subseteq FlaggedOf(r))
             => r.status = "Win"

\* C3 witness: both mines flagged by flag calls, a non-mine flagged too, no
\* field revealed, and the game is won.
C3_Witness ==
  /\ ms.mine_count = 2
  /\ Mines \subseteq Flagged
  /\ Flagged # Mines
  /\ Revealed = {}
  /\ last = "flag"
  /\ ms.status = "Win"

\* ------------------------------------------------------------------------
\* C4  Win and GameOver are terminal.
\* ------------------------------------------------------------------------

\* C4: a reveal or flag call made when status is Win or GameOver changes
\* nothing (and does not abort, whatever the coordinates); and status only
\* ever changes Running -> Win or GameOver by reveal, Running -> Win by flag,
\* or to Running by restart.
C4_TerminalStatus ==
  [][ /\ (ms.status # "Running" /\ last' \in {"reveal", "flag"})
           => (ms' = ms /\ panicked' = panicked)
      /\ (ms'.status # ms.status)
           => \/ last' = "restart" /\ ms'.status = "Running"
              \/ last' = "reveal" /\ ms.status = "Running"
                                  /\ ms'.status \in {"Win", "GameOver"}
              \/ last' = "flag" /\ ms.status = "Running" /\ ms'.status = "Win"
    ]_vars

\* C4 witness: a flag call was made on a lost game (flag never sets
\* GameOver, so the game was already lost when it was called).
C4_Witness ==
  /\ ms.status = "GameOver"
  /\ last = "flag"
  /\ Cardinality(Revealed) > 1
  /\ Flagged # {}

\* ------------------------------------------------------------------------
\* C5  The counters equal a recount over the board.
\* ------------------------------------------------------------------------

\* C5: revealed_count, flagged_count and flagged_mines_count equal the number
\* of revealed fields, of flagged fields and of flagged mine fields.
C5_CountersMatchBoard ==
  /\ ms.revealed_count = Cardinality(Revealed)
  /\ ms.flagged_count = Cardinality(Flagged)
  /\ ms.flagged_mines_count = Cardinality(Flagged \cap Mines)

\* C5 witness: a flood has revealed several fields at once while a mine and a
\* non-mine are flagged.
C5_Witness ==
  /\ last = "reveal"
  /\ \E c \in Revealed : FieldAt(ms, c).adjacent_mines = 0
  /\ ms.revealed_count >= 3
  /\ ms.flagged_count = 2
  /\ ms.flagged_mines_count = 1

\* ------------------------------------------------------------------------
\* C6  No field is both revealed and flagged.
\* ------------------------------------------------------------------------

\* C6: in every reachable state no field is both revealed and flagged.
C6_RevealedXorFlagged ==
  Revealed \cap Flagged = {}

\* C6 witness: a flood passed by a flag: a flagged field lies next to a
\* revealed field with no adjacent mines.
C6_Witness ==
  \E c \in Flagged :
    \E d \in Neighbours(ms, c) :
      FieldAt(ms, d).is_revealed /\ FieldAt(ms, d).adjacent_mines = 0

\* ------------------------------------------------------------------------
\* C7  reveal on a revealed or flagged field, flag on a revealed field.
\* ------------------------------------------------------------------------

\* C7: in every reachable state and for every field, reveal on a revealed or
\* flagged field and flag on a revealed field return normally with the game
\* unchanged; and a second reveal at the coordinates of a reveal that just
\* returned changes nothing more.
C7_NoOpOnRevealedOrFlagged ==
  ~panicked =>
    \A c \in Cells :
      LET f == FieldAt(ms, c)
          r == reveal(ms, c[1], c[2])
      IN  /\ (f.is_revealed \/ f.is_flagged) => r = Ok(ms)
          /\ f.is_revealed => flag(ms, c[1], c[2]) = Ok(ms)
          /\ reveal(r.self, c[1], c[2]) = Ok(r.self)

\* C7 witness: a Running game, just after a reveal call, that has a revealed
\* field and a flagged field to call reveal and flag on.
C7_Witness ==
  /\ ms.status = "Running"
  /\ last = "reveal"
  /\ Revealed # {}
  /\ Flagged # {}
  /\ \E c \in Revealed : flag(ms, c[1], c[2]) = Ok(ms)
  /\ \E c \in Flagged : reveal(ms, c[1], c[2]) = Ok(ms)

\* ------------------------------------------------------------------------
\* C8  Flood fill.
\* ------------------------------------------------------------------------

\* The fields with no adjacent mines that are not mines themselves.
ZeroCells(self) ==
  { c \in CellsOf(self) :
      ~FieldAt(self, c).is_mine /\ FieldAt(self, c).adjacent_mines = 0 }

\* Least set containing `from` and closed under stepping from a member that
\* is in `through` to a neighbour that is in `into`.
RECURSIVE Closure(_, _, _, _)
Closure(self, from, through, into) ==
  LET more == { d \in into :
                  \E c \in from \cap through : d \in Neighbours(self, c) }
  IN  IF more \subseteq from THEN from
      ELSE Closure(self, from \cup more, through, into)

\* Reference closure of the claim: the maximal 8-connected region of zero
\* fields around c together with all neighbours of that region.
RegionWithBorder(self, c) ==
  Closure(self, {c}, ZeroCells(self), CellsOf(self))

\* Reference closure that respects flags: the fields reached from c by steps
\* out of untouched zero fields into untouched fields.
UnflaggedRegionWithBorder(self, c) ==
  LET open == { d \in CellsOf(self) : Untouched(self, d) }
  IN  Closure(self, {c}, ZeroCells(self) \cap open, open)

\* The states and fields the claim is about.
FloodStart(c) ==
  /\ ~panicked
  /\ ms.status = "Running"
  /\ c \in ZeroCells(ms)
  /\ Untouched(ms, c)

\* C8 as stated: a reveal call on an untouched zero field reveals exactly the
\* fields of its zero region and of the region's border (those not yet
\* revealed), and no mine.
C8_FloodRevealsWholeRegion ==
  [][ \A c \in Cells :
        (FloodStart(c) /\ last' = "reveal" /\ ms' = reveal(ms, c[1], c[2]).self)
          => /\ RevealedOf(ms') \ Revealed = RegionWithBorder(ms, c) \ Revealed
             /\ RevealedOf(ms') \cap Mines = {}
    ]_vars

\* C8 amended: reveal on an untouched zero field reveals exactly the fields
\* reached from it through untouched zero fields (flagged fields are neither
\* revealed nor passed), counts each once, reveals no mine and changes
\* nothing else on the board.
C8_FloodRevealsUnflaggedRegion ==
  \A c \in Cells :
    FloodStart(c) =>
      LET r == reveal(ms, c[1], c[2]).self
          fresh == UnflaggedRegionWithBorder(ms, c)
      IN  /\ RevealedOf(r) = Revealed \cup fresh
          /\ fresh \cap Revealed = {}
          /\ r.revealed_count = ms.revealed_count + Cardinality(fresh)
          /\ fresh \cap Mines = {}
          /\ FlaggedOf(r) = Flagged
          /\ MinesOf(r) = Mines

\* C8 witness: a flood has run in a game with mines: a revealed zero field,
\* a revealed numbered border field, and a flagged non-mine field that the
\* flood left unrevealed although it belongs to the region or its border.
C8_Witness ==
  /\ last = "reveal"
  /\ ms.mine_count > 0
  /\ \E c \in Revealed \cap ZeroCells(ms) :
       /\ \E d \in Revealed : FieldAt(ms, d).adjacent_mines > 0
       /\ \E d \in (Flagged \ Mines) \cap RegionWithBorder(ms, c) :
            ~FieldAt(ms, d).is_revealed

\* ------------------------------------------------------------------------
\* C9  Out-of-range coordinates.
\* ------------------------------------------------------------------------

\* C9: every reveal and flag call with x >= dx or y >= dy returns normally
\* and leaves the game unchanged.
C9_OutOfBoundsIsNoOp ==
  [][ \A x \in XArgs, y \in YArgs :
        ~InBounds(ms, x, y) =>
          /\ (last' = "reveal" /\ ms' = reveal(ms, x, y).self
                               /\ panicked' = reveal(ms, x, y).panic)
               => (ms' = ms /\ ~panicked')
          /\ (last' = "flag" /\ ms' = flag(ms, x, y).self
                             /\ panicked' = flag(ms, x, y).panic)
               => (ms' = ms /\ ~panicked')
    ]_vars

\* ------------------------------------------------------------------------
\* C10  Hidden state.
\* ------------------------------------------------------------------------

\* The boards that differ from `board` in one hidden value (is_mine or
\* adjacent_mines) of the one field c.
HiddenVariants(board, c) ==
  { [board EXCEPT ![c[2]][c[1]].is_mine = m] : m \in BOOLEAN }
    \cup { [board EXCEPT ![c[2]][c[1]].adjacent_mines = a] : a \in 0..8 }

\* C10: for every unrevealed field the accessors is_mine() and
\* adjacent_mines() return false and 0, so does its tile in the snapshot, and
\* changing a hidden value of the field leaves the whole snapshot unchanged.
C10_HiddenState ==
  LET tiles == board_as_model(ms.board) IN
    \A c \in Cells \ Revealed :
      /\ Field_is_mine(FieldAt(ms, c)) = FALSE
      /\ Field_adjacent_mines(FieldAt(ms, c)) = 0
      /\ tiles[c[2]][c[1]].is_mine = FALSE
      /\ tiles[c[2]][c[1]].adjacent_mines = 0
      /\ \A b \in HiddenVariants(ms.board, c) : board_as_model(b) = tiles

\* C10 witness: an unrevealed mine and an unrevealed numbered field are
\* hidden while a revealed field shows its number in the snapshot.
C10_Witness ==
  /\ \E c \in Mines \ Revealed : TRUE
  /\ \E c \in Cells \ (Revealed \cup Mines) : FieldAt(ms, c).adjacent_mines > 0
  /\ \E c \in Revealed :
       board_as_model(ms.board)[c[2]][c[1]].adjacent_mines > 0

\* ------------------------------------------------------------------------
\* C11  restart.
\* ------------------------------------------------------------------------

\* C11: every restart call, from whatever state, leaves status Running, no
\* field revealed or flagged, the three counters 0, exactly mine_count mines
\* on a board of dy rows of dx fields, and dx, dy and mine_count as before.
C11_RestartResets ==
  [][ last' = "restart" =>
        /\ ms'.status = "Running"
        /\ RevealedOf(ms') = {}
        /\ FlaggedOf(ms') = {}
        /\ ms'.revealed_count = 0
        /\ ms'.flagged_count = 0
        /\ ms'.flagged_mines_count = 0
        /\ Cardinality(MinesOf(ms')) = ms'.mine_count
        /\ DOMAIN ms'.board = 0..(ms.dy - 1)
        /\ \A y \in DOMAIN ms'.board : DOMAIN ms'.board[y] = 0..(ms.dx - 1)
        /\ ms'.dx = ms.dx /\ ms'.dy = ms.dy /\ ms'.mine_count = ms.mine_count
    ]_vars

\* C11 witness: a lost game with revealed and flagged fields, on which
\* restart gives a Running game with another mine placement.
C11_Witness ==
  /\ ms.status = "GameOver"
  /\ Cardinality(Revealed) > 1
  /\ Flagged # {}
  /\ \E mines \in choose_multiple(ms.dx * ms.dy, ms.mine_count) :
       LET r == restart(ms, mines) IN
         /\ r.status = "Running"
         /\ RevealedOf(r) = {} /\ FlaggedOf(r) = {}
         /\ MinesOf(r) # Mines

\* ------------------------------------------------------------------------
\* C12  Adjacency counts.
\* ------------------------------------------------------------------------

\* C12: in every reachable state each field's adjacent_mines equals the
\* number of mines among its neighbours within the board.
C12_AdjacencyCorrect ==
  \A c \in Cells :
    FieldAt(ms, c).adjacent_mines = Cardinality(Neighbours(ms, c) \cap Mines)

\* C12 witness: after reveal and flag calls, a field counts two mines, a
\* mine counts another mine, and a field on the far side of a row of three
\* counts none.
C12_Witness ==
  /\ last \in {"reveal", "flag"}
  /\ Revealed # {} /\ Flagged # {}
  /\ ms.dx = 3
  /\ \E c \in Cells \ Mines : FieldAt(ms, c).adjacent_mines = 2
  /\ \E c \in Mines : FieldAt(ms, c).adjacent_mines = 1
  /\ \E c \in Cells, d \in Mines :
       c[2] = d[2] /\ c[1] = 2 /\ d[1] = 0 /\ FieldAt(ms, c).adjacent_mines = 0

\* ------------------------------------------------------------------------
\* C13  Reveal monotonicity.
\* ------------------------------------------------------------------------

\* C13: a reveal or flag call never lowers revealed_count and never turns a
\* revealed field back into an unrevealed one.
C13_RevealMonotone ==
  [][ last' \in {"reveal", "flag"} =>
        /\ ms'.revealed_count >= ms.revealed_count
        /\ Revealed \subseteq RevealedOf(ms')
    ]_vars

\* C13 witness: a Running game after several single reveals and a flag.
C13_Witness ==
  /\ ms.status = "Running"
  /\ last = "reveal"
  /\ ms.revealed_count >= 2
  /\ \A c \in Revealed : FieldAt(ms, c).adjacent_mines > 0
  /\ Flagged # {}

\* ------------------------------------------------------------------------
\* C14  Scenario on the 2x2 board with the mine at (0,0).
\* ------------------------------------------------------------------------

\* A fresh 2x2 game whose single mine is at (0,0).
ScenarioStart ==
  /\ ~panicked
  /\ ms.dx = 2 /\ ms.dy = 2 /\ ms.mine_count = 1
  /\ Mines = {<<0, 0>>}
  /\ ms.status = "Running"
  /\ Revealed = {} /\ Flagged = {}

\* The games after reveal(1,1), reveal(0,1), reveal(1,0) and flag(0,0),
\* called in this order on `self`.
ScenarioRun(self) ==
  LET s1 == reveal(self, 1, 1).self
      s2 == reveal(s1, 0, 1).self
      s3 == reveal(s2, 1, 0).self
      s4 == flag(s3, 0, 0).self
  IN  <<s1, s2, s3, s4>>

\* C14 as stated: on that game reveal(1,1) reveals only (1,1), and after
\* reveal(0,1), reveal(1,0) and flag(0,0) flagged_mines_count = 1 =
\* mine_count and status is Win.
C14_ScenarioEndsWithFlaggedMine ==
  ScenarioStart =>
    LET run == ScenarioRun(ms) IN
      /\ \A c \in Cells : FieldAt(ms, c).adjacent_mines = (IF c = <<0, 0>> THEN 0 ELSE 1)
      /\ RevealedOf(run[1]) = {<<1, 1>>}
      /\ run[4].flagged_mines_count = 1
      /\ run[4].flagged_mines_count = run[4].mine_count
      /\ run[4].status = "Win"

\* C14 amended: reveal(1,1) reveals only (1,1); reveal(0,1) and reveal(1,0)
\* reveal one field each, and the third reveal already wins by clearance
\* (revealed_count = 3); flag(0,0) then changes nothing, so the run ends
\* with status Win, the mine unflagged and flagged_mines_count = 0.
C14_ScenarioEndsWithClearanceWin ==
  ScenarioStart =>
    LET run == ScenarioRun(ms) IN
      /\ \A c \in Cells : FieldAt(ms, c).adjacent_mines = (IF c = <<0, 0>> THEN 0 ELSE 1)
      /\ RevealedOf(run[1]) = {<<1, 1>>} /\ run[1].status = "Running"
      /\ RevealedOf(run[2]) = {<<1, 1>>, <<0, 1>>} /\ run[2].status = "Running"
      /\ RevealedOf(run[3]) = {<<1, 1>>, <<0, 1>>, <<1, 0>>}
      /\ run[3].revealed_count = 3
      /\ run[3].status = "Win"
      /\ run[4] = run[3]
      /\ run[4].flagged_mines_count = 0
      /\ FlaggedOf(run[4]) = {}

\* C14 witness: the end of the scenario: the 2x2 game with the mine at
\* (0,0), its three other fields revealed, after a flag call.
C14_Witness ==
  /\ ms.dx = 2 /\ ms.dy = 2
  /\ Mines = {<<0, 0>>}
  /\ Revealed = {<<1, 1>>, <<0, 1>>, <<1, 0>>}
  /\ last = "flag"
  /\ ms.status = "Win"
  /\ ms.flagged_mines_count = 0

\* ------------------------------------------------------------------------
\* C15  Win conditions imply Win.
\* ------------------------------------------------------------------------

\* Every non-mine field is counted as revealed.
ClearanceCondition(self) ==
  self.revealed_count = self.dx * self.dy - self.mine_count

\* Every mine is counted as flagged.
FlagCondition(self) ==
  self.flagged_mines_count = self.mine_count

\* C15 as stated: in every reachable state, if either win condition holds
\* then status is Win.
C15_ConditionsImplyWin ==
  (ClearanceCondition(ms) \/ FlagCondition(ms)) => ms.status = "Win"

\* C15 amended: the same, except that a game without mines on which no
\* reveal or flag call has taken effect since new/restart is Running although
\* flagged_mines_count = mine_count = 0.
C15_ConditionsImplyWinOnceTouched ==
  (\/ ClearanceCondition(ms)
   \/ (FlagCondition(ms) /\ (ms.mine_count > 0 \/ Revealed \cup Flagged # {})))
    => ms.status = "Win"

\* C15 witness: a game without mines, won by its first flag call.
C15_Witness ==
  /\ ms.mine_count = 0
  /\ last = "flag"
  /\ Cardinality(Flagged) = 1
  /\ Revealed = {}
  /\ FlagCondition(ms) /\ ~ClearanceCondition(ms)
  /\ ms.status = "Win"

\* ------------------------------------------------------------------------
\* C16  Win is sound with respect to the board.
\* ------------------------------------------------------------------------

\* C16: in every reachable state with status Win, every non-mine field is
\* revealed or every mine is flagged, and no mine is revealed.
C16_WinIsSound ==
  ms.status = "Win" =>
    /\ (Cells \ Mines \subseteq Revealed) \/ (Mines \subseteq Flagged)
    /\ Mines \cap Revealed = {}

\* ------------------------------------------------------------------------
\* C17  The flood reveal terminates and marks each field at most once.
\* ------------------------------------------------------------------------

\* SpecFlood runs the engine on the fields of the board with the flooding
\* branch of reveal executed one statement of reveal_zeros at a time.  The
\* methods take &mut self, so no other call starts while one is running.
Flooding == stack # <<>>
Top == stack[Len(stack)]

\* flag(x, y) on a field of the board, between two reveal calls.
FloodFlag ==
  /\ ~Flooding
  /\ \E c \in Cells : ms' = flag(ms, c[1], c[2]).self
  /\ UNCHANGED <<uiVars, panicked, last, floodVars>>

\* reveal(x, y) on an unrevealed, unflagged field of a Running game: the mine
\* and numbered-field branches run to the end of reveal; the zero branch
\* (line 200) calls reveal_zeros(x, y).
RevealCall ==
  /\ ~Flooding
  /\ ms.status = "Running"
  /\ \E c \in Cells :
       /\ Untouched(ms, c)
       /\ IF FieldAt(ms, c).is_mine \/ FieldAt(ms, c).adjacent_mines # 0
            THEN /\ ms' = reveal(ms, c[1], c[2]).self
                 /\ UNCHANGED floodVars
            ELSE /\ stack' = <<Frame(c[1], c[2])>>
                 /\ marked' = <<>>
                 /\ call' = [self |-> ms, x |-> c[1], y |-> c[2]]
                 /\ UNCHANGED ms
  /\ UNCHANGED <<uiVars, panicked, last>>

\* Lines 216-226 in the running activation.
FloodEnter ==
  /\ Flooding
  /\ Top.pc = 0
  /\ LET e == reveal_zeros_enter(ms, Top.x, Top.y) IN
       /\ ms' = e.self
       /\ marked' = IF e.marks THEN Append(marked, <<Top.x, Top.y>>)
                    ELSE marked
       /\ stack' = [stack EXCEPT ![Len(stack)].pc =
                                    IF e.recurses THEN 1 ELSE 9]
  /\ UNCHANGED <<uiVars, panicked, last, call>>

\* One of the eight guarded recursive calls (lines 229-243).
FloodRecurse ==
  /\ Flooding
  /\ Top.pc \in 1..8
  /\ LET c == reveal_zeros_call(ms, Top.x, Top.y, Top.pc)
         here == [stack EXCEPT ![Len(stack)].pc = @ + 1]
     IN  stack' = IF c.guard THEN Append(here, Frame(c.x, c.y)) ELSE here
  /\ UNCHANGED <<uiVars, ms, panicked, last, marked, call>>

\* The return of an activation; the outermost one returns into reveal, which
\* calls check_win (line 206) and returns.
FloodReturn ==
  /\ Flooding
  /\ Top.pc = 9
  /\ stack' = SubSeq(stack, 1, Len(stack) - 1)
  /\ IF Len(stack) = 1
       THEN /\ ms' = check_win(ms)
            /\ marked' = <<>>
            /\ call' = <<>>
       ELSE UNCHANGED <<ms, marked, call>>
  /\ UNCHANGED <<uiVars, panicked, last>>

FloodStep == FloodEnter \/ FloodRecurse \/ FloodReturn

NextFlood == FloodFlag \/ RevealCall \/ FloodStep

\* A call that has started keeps executing: weak fairness on its steps.
SpecFlood == Init /\ [][NextFlood]_vars /\ WF_vars(FloodStep)

\* No field occurs twice among the fields marked by the running invocation.
MarkedAtMostOnce ==
  \A i, j \in 1..Len(marked) : marked[i] = marked[j] => i = j

\* The marked fields are exactly the fields revealed since the call began,
\* and revealed_count has grown by one for each of them.
CountedAtMostOnce ==
  Flooding =>
    /\ { marked[i] : i \in 1..Len(marked) } = Revealed \ RevealedOf(call.self)
    /\ ms.revealed_count = call.self.revealed_count + Len(marked)

\* The outermost return leaves the game reveal(x, y) computes in one step.
FloodReturnsReveal ==
  (Flooding /\ ~Flooding') =>
    ms' = reveal(call.self, call.x, call.y).self

\* C17: from every reachable game (any board, mines, flags and start field)
\* a started flood reveal comes to its end, and while it runs every field
\* is marked revealed, and counted in revealed_count, at most once.
C17_FloodTerminatesMarkingOnce ==
  /\ [](MarkedAtMostOnce /\ CountedAtMostOnce)
  /\ [][FloodReturnsReveal]_vars
  /\ Flooding ~> ~Flooding

\* A flood that has marked three fields and is now called again on one of
\* them, with a flag on the board.
C17_Witness ==
  /\ Flooding
  /\ Len(marked) >= 3
  /\ Top.pc = 0
  /\ \E i \in 1..Len(marked) : marked[i] = <<Top.x, Top.y>>
  /\ Flagged # {}

\* ------------------------------------------------------------------------
\* C18  Flagging twice.
\* ------------------------------------------------------------------------

\* The states and fields the claim is about: a Running game and an
\* unrevealed field of it.
FlagTwiceCase(c) ==
  /\ ~panicked
  /\ ms.status = "Running"
  /\ ~FieldAt(ms, c).is_revealed

\* C18 as stated: in every reachable Running state, for every unrevealed
\* field, two flag calls in a row on it restore the state before them.
C18_FlagTwiceRestores ==
  \A c \in Cells :
    FlagTwiceCase(c) =>
      flag(flag(ms, c[1], c[2]).self, c[1], c[2]).self = ms

\* C18 amended: two flag calls in a row on an unrevealed field of a Running
\* game restore the state before them whenever the first call leaves the
\* game Running; when the first call wins the game (it flagged the last
\* unflagged mine, or the game has no mines) the second call changes
\* nothing, so the flag and status Win stay.
C18_FlagTwiceRestoresUnlessWon ==
  \A c \in Cells :
    FlagTwiceCase(c) =>
      LET r1 == flag(ms, c[1], c[2]).self
          r2 == flag(r1, c[1], c[2]).self
      IN  /\ r1.status \in {"Running", "Win"}
          /\ r1.status = "Running" => r2 = ms
          /\ r1.status = "Win" =>
               /\ r2 = r1
               /\ FieldAt(r1, c).is_flagged
               /\ MinesOf(r1) \subseteq FlaggedOf(r1)

\* C18 witness: a Running game after two flag calls, with a mine and a
\* non-mine flagged, in which flagging twice restores the state for a flagged
\* and for an unflagged field, and in which flagging the other mine wins.
C18_Witness ==
  /\ ms.status = "Running"
  /\ last = "flag"
  /\ ms.flagged_count = 2 /\ ms.flagged_mines_count = 1
  /\ \E c \in Flagged : flag(flag(ms, c[1], c[2]).self, c[1], c[2]).self = ms
  /\ \E c \in Cells \ (Flagged \cup Revealed \cup Mines) :
       flag(flag(ms, c[1], c[2]).self, c[1], c[2]).self = ms
  /\ \E c \in Mines \ Flagged : flag(ms, c[1], c[2]).self.status = "Win"

\* ------------------------------------------------------------------------
\* C19  The remaining-mine readout.
\* ------------------------------------------------------------------------

\* C19: in every reachable state flagged_count <= mine_count, and the
\* subtraction mine_count - flagged_count of the right-click handler gives
\* the plain difference (it neither panics nor wraps).
C19_ReadoutNeverUnderflows ==
  /\ ms.flagged_count <= ms.mine_count
  /\ \A o \in mines_readout(ms) :
       o = [kind |-> "value", value |-> ms.mine_count - ms.flagged_count]

\* ------------------------------------------------------------------------
\* C20  The callbacks hold the Mutex from their operation to their snapshot.
\* ------------------------------------------------------------------------

\* SpecUI runs the four callbacks as processes that may be invoked at any
\* time and interleave statement by statement.  The positions of a callback:
\*   "idle"    not running
\*   "lock"    at `ms.lock().unwrap()`
\*   "op"      at its engine operation (tick: at seconds_running)
\*   "mines"   at the read of the mine readout (right click, restart)
\*   "status"  at `ms.status()`
\*   "board"   at `ms.board_clone()`
\*   "send"    at `upgrade_in_event_loop`
\*   "drop"    at the end of the closure, where the guard is dropped
\*   "panicked" aborted by a panic

\* Largest number of fields of the game the window shows in SpecUI.
UiMaxCells == 4

\* Faulty variant: a lock that does not wait for the holder of the Mutex.
Mutex_lock_ready_NoExclusion(m) == TRUE

\* Mutex::lock returns when no guard of the Mutex is alive.
Mutex_lock_ready(m) == m = "free"

InitUI ==
  /\ \E set \in Settings :
       /\ set.dx * set.dy <= UiMaxCells
       /\ \E mines \in choose_multiple(set.dx * set.dy, set.mine_count) :
            ms = new(set, mines)
  /\ panicked = FALSE
  /\ last = "new"
  /\ stack = <<>>
  /\ marked = <<>>
  /\ call = <<>>
  /\ UiIdle

\* The window calls the callback.
Invoke(p) ==
  /\ pc[p] = "idle"
  /\ pc' = [pc EXCEPT ![p] = "lock"]
  /\ UNCHANGED <<ms, panicked, last, floodVars, mutex, local>>

\* `ms.lock().unwrap()`: waits for the Mutex; panics when it is poisoned.
Lock(p) ==
  /\ pc[p] = "lock"
  /\ IF mutex = "poisoned"
       THEN /\ pc' = [pc EXCEPT ![p] = "panicked"]
            /\ UNCHANGED mutex
       ELSE /\ Mutex_lock_ready(mutex)
            /\ mutex' = p
            /\ pc' = [pc EXCEPT ![p] = "op"]
  /\ UNCHANGED <<ms, panicked, last, floodVars, local>>

\* The engine operation of the callback, on a tile of the window.
Operate(p) ==
  /\ pc[p] = "op"
  /\ CASE p = "tile_clicked" ->
            \E c \in Cells : ms' = reveal(ms, c[1], c[2]).self
       [] p = "tile_right_clicked" ->
            \E c \in Cells : ms' = flag(ms, c[1], c[2]).self
       [] p = "restart" ->
            \E mines \in choose_multiple(ms.dx * ms.dy, ms.mine_count) :
              ms' = restart(ms, mines)
       [] p = "tick" -> ms' = ms
  /\ local' = [local EXCEPT ![p].after = ms']
  /\ pc' = [pc EXCEPT ![p] = IF p \in {"tile_right_clicked", "restart"}
                               THEN "mines" ELSE "status"]
  /\ UNCHANGED <<panicked, last, floodVars, mutex>>

\* Line 116 (right click: mine_count - flagged_count, which may panic and
\* then poisons the Mutex as the guard unwinds) and line 149 (restart).
ReadMines(p) ==
  /\ pc[p] = "mines"
  /\ \E o \in IF p = "restart"
                THEN { [kind |-> "value", value |-> ms.mine_count] }
                ELSE mines_readout(ms) :
       IF o.kind = "panic"
         THEN /\ pc' = [pc EXCEPT ![p] = "panicked"]
              /\ mutex' = "poisoned"
              /\ panicked' = TRUE
              /\ UNCHANGED local
         ELSE /\ local' = [local EXCEPT ![p].mines = o]
              /\ pc' = [pc EXCEPT ![p] = "status"]
              /\ UNCHANGED <<mutex, panicked>>
  /\ UNCHANGED <<ms, last, floodVars>>

ReadStatus(p) ==
  /\ pc[p] = "status"
  /\ local' = [local EXCEPT ![p].ms_status = ms.status]
  /\ pc' = [pc EXCEPT ![p] = IF p = "tick" THEN "send" ELSE "board"]
  /\ UNCHANGED <<ms, panicked, last, floodVars, mutex>>

ReadBoard(p) ==
  /\ pc[p] = "board"
  /\ local' = [local EXCEPT ![p].board = ms.board]
  /\ pc' = [pc EXCEPT ![p] = "send"]
  /\ UNCHANGED <<ms, panicked, last, floodVars, mutex>>

\* `upgrade_in_event_loop(move |handle| ...)`: the closure takes the locals
\* as they are now.
Send(p) ==
  /\ pc[p] = "send"
  /\ pc' = [pc EXCEPT ![p] = "drop"]
  /\ UNCHANGED <<ms, panicked, last, floodVars, mutex, local>>

\* End of the callback: its guard is dropped, which unlocks the Mutex.
Drop(p) ==
  /\ pc[p] = "drop"
  /\ pc' = [pc EXCEPT ![p] = "idle"]
  /\ mutex' = IF mutex = p THEN "free" ELSE mutex
  /\ local' = [local EXCEPT ![p] = LocalsDefault]
  /\ UNCHANGED <<ms, panicked, last, floodVars>>

NextUI ==
  \E p \in Callbacks :
    \/ Invoke(p)
    \/ Lock(p)
    \/ Operate(p)
    \/ ReadMines(p)
    \/ ReadStatus(p)
    \/ ReadBoard(p)
    \/ Send(p)
    \/ Drop(p)

SpecUI == InitUI /\ [][NextUI]_vars

\* The positions at which a callback holds its guard.
Guarded == {"op", "mines", "status", "board", "send", "drop"}

\* What the callback hands to the event loop.
Forwarded(p) ==
  [ms_status |-> local[p].ms_status,
   board |-> local[p].board,
   mines |-> local[p].mines]

\* The snapshots of game `g` the callback can build: status, board (not read
\* by tick) and mine readout (right click and restart only).
SnapshotsOf(p, g) ==
  { [ms_status |-> g.status,
     board |-> IF p = "tick" THEN <<>> ELSE g.board,
     mines |-> m] :
    m \in CASE p = "tile_right_clicked" -> mines_readout(g)
            [] p = "restart" -> { [kind |-> "value", value |-> g.mine_count] }
            [] OTHER -> { <<>> } }

\* C20: under every interleaving of the four callbacks, a callback holds the
\* Mutex from before its engine operation to the end of the closure, no two
\* callbacks are between lock and drop together, the game stays as the
\* callback's own operation left it while the callback reads it, and what
\* the callback forwards is a snapshot of exactly that game.
C20_SnapshotIsOwnResult ==
  \A p \in Callbacks :
    /\ pc[p] \in Guarded => mutex = p
    /\ \A q \in Callbacks : (pc[p] \in Guarded /\ pc[q] \in Guarded) => p = q
    /\ pc[p] \in Guarded \ {"op"} => ms = local[p].after
    /\ pc[p] = "drop" => Forwarded(p) \in SnapshotsOf(p, local[p].after)

\* The click callback has forwarded the snapshot of a reveal that changed the
\* game while the right-click, restart and tick callbacks wait for the Mutex.
C20_Witness ==
  /\ pc["tile_clicked"] = "drop"
  /\ local["tile_clicked"].after.revealed_count > 0
  /\ local["tile_clicked"].ms_status # "Running"
  /\ \A q \in Callbacks \ {"tile_clicked"} : pc[q] = "lock"

====
